---- MODULE Spec2Model ----
(***************************************************************************)
(* Block-aware finite-element assembly (dolfin::fem::Assembler) and        *)
(* Form::mesh.  One assemble call is a sequential program; it is modelled  *)
(* statement group by statement group with a program counter `pc`.  Dofs   *)
(* and block indices are 0-based as in the C++ code; cell dof lists and    *)
(* the rows/columns of a local tensor are TLA+ sequences (1-based) holding *)
(* 0-based dof numbers.  Floating point values are modelled by integers.   *)
(***************************************************************************)
EXTENDS Integers, Sequences, FiniteSets, TLC

\* ------------------------------------------------------------------------
\* Bounds of the model
\* ------------------------------------------------------------------------
NCells == 2      \* number of (owned) cells of the mesh
MaxCalls == 2    \* assemble calls made on the same target
MaxCoefficients == 2   \* coefficients of a form

\* ------------------------------------------------------------------------
\* State
\* ------------------------------------------------------------------------
VARIABLES
  op,          \* operation being run: "matrix", "vector", ...
  nproc,       \* number of processes (MPI::size)
  rank,        \* the process whose statements are being executed
  sys,         \* the block form collection (_a / _l)
  bcs,         \* the boundary conditions (_bcs)
  hint,        \* block_type argument of the current call
  pc,          \* position in the current call
  err,         \* message of the raised error, "" if none
  call,        \* number of the current assemble call (1 ..)
  path,        \* branch taken by the call: nested / monolithic / single
  bi, bj,      \* loop indices i, j over the blocks
  offset_row,  \* running offsets of the monolithic path
  offset_col,
  view,        \* the matrix handed to the core: sub-object, local
               \* sub-matrix (index sets is0, is1) or the whole matrix
  cell,        \* next cell of the core's cell loop (process-local index)
  bv0, bv1,    \* boundary_values[0], boundary_values[1] of the core
  Ae,          \* the local tensor last passed to add_local
  A,           \* the matrix target
  b,           \* the vector target
  b_local,     \* the dense buffer of the monolithic vector path
  finals,      \* apply(FINAL) calls made on the target in the current call
  events,      \* storage calls made in the current call, in order
  first,       \* target contents at the end of the first call
  pre,         \* what the vector held before apply_bc / set_bc
  form,        \* a Form object: spaces, mesh, markers, coefficients
  res,         \* outcome of the last Form::mesh() call
  ufc          \* per function space, the element signature that the
               \* generated code (ufc::form) of the forms expects

\* what the Assembler is given or never touches
inputs == <<op, nproc, sys, bcs, pre, form, res, ufc>>

vars == <<op, nproc, rank, sys, bcs, hint, pc, err, call, path, bi, bj,
          offset_row, offset_col, view, cell, bv0, bv1, Ae, A, b, b_local,
          finals, events, first, pre, form, res, ufc>>

\* ------------------------------------------------------------------------
\* Collaborators: mesh, dof maps, function spaces, kernels, conditions
\* ------------------------------------------------------------------------
\* The mesh is an interval of NCells cells.  With two processes the first
\* Half cells belong to process 0, the others to process 1; there are no
\* ghost cells.
Half == (NCells + 1) \div 2

\* number of cells of MeshRange<Cell>(mesh) on process p
num_cells(p) ==
  IF nproc = 1 THEN NCells ELSE IF p = 0 THEN Half ELSE NCells - Half

\* global number of the c-th cell of process p
global_cell(p, c) == IF nproc = 1 \/ p = 0 THEN c ELSE Half + c

\* Function spaces on the mesh.  "V": two dofs per cell (the vertices),
\* "Q": one dof per cell, "W": as "V" with the dofs numbered from the right.
Spaces == {"V", "Q", "W"}

global_size(s) == IF s = "Q" THEN NCells ELSE NCells + 1

\* global dofs of a cell
global_dofs(s, gc) ==
  IF s = "V" THEN <<gc, gc + 1>>
  ELSE IF s = "W" THEN <<NCells - gc, NCells - (gc + 1)>>
  ELSE <<gc>>

\* IndexMap: first owned global dof and number of owned dofs on process p
owned_first(p, s) ==
  IF nproc = 1 \/ p = 0 THEN 0 ELSE IF s = "Q" THEN Half ELSE Half + 1
owned_size(p, s) ==
  IF nproc = 1 THEN global_size(s)
  ELSE IF p = 0 THEN (IF s = "Q" THEN Half ELSE Half + 1)
  ELSE global_size(s) - (IF s = "Q" THEN Half ELSE Half + 1)

\* IndexMap: the ghost dofs of process p (global numbers)
ghosts(p, s) == IF nproc = 2 /\ p = 1 /\ s = "V" THEN <<Half>> ELSE <<>>

\* IndexMap::size(MapSize::ALL) on process p
local_size(p, s) == owned_size(p, s) + Len(ghosts(p, s))

\* IndexMap::local_to_global on process p
local_to_global(p, s, l) ==
  IF l < owned_size(p, s) THEN owned_first(p, s) + l
  ELSE ghosts(p, s)[l - owned_size(p, s) + 1]

\* process-local index of a global dof present on process p
global_to_local(p, s, g) ==
  CHOOSE l \in 0 .. (local_size(p, s) - 1) : local_to_global(p, s, l) = g

\* IndexMap::size(MapSize::ALL) of the space's dof map on this process
map_size(s) == local_size(rank, s)

\* GenericDofMap::cell_dofs(cell.index()) on this process (local dofs)
cell_dofs(s, c) ==
  LET g == global_dofs(s, global_cell(rank, c))
  IN [k \in 1 .. Len(g) |-> global_to_local(rank, s, g[k])]

\* FunctionSpace::contains: a space contains itself and its sub-spaces
\* ("Vsub" is a sub-space of "V", numbered with the dofs of "V")
contains(s, t) == (t = s) \/ (t = "Vsub" /\ s = "V")

\* Form::tabulate_tensor for the bilinear form of block (i, j) on cell c:
\* a dense rows x cols tensor, deterministic, never zero
tabulate_tensor(i, j, s0, s1, c) ==
  [r \in 1 .. Len(cell_dofs(s0, c)) |->
     [k \in 1 .. Len(cell_dofs(s1, c)) |->
        1 + (k - 1) + 2 * (r - 1) + 4 * global_cell(rank, c)
          + 4 * NCells * (2 * i + j)]]

\* Form::tabulate_tensor for the linear form of block i on cell c
tabulate_vector(i, s0, c) ==
  [r \in 1 .. Len(cell_dofs(s0, c)) |->
     1 + (r - 1) + 2 * global_cell(rank, c) + 2 * NCells * i]

\* Dirichlet conditions: space, constrained dof -> prescribed value,
\* method, and the dofs whose value the process does not find itself when
\* the mesh is distributed (another process sharing the dof does)
DirichletBC(s, v, m, r) ==
  [space |-> s, values |-> v, method |-> m, remote |-> r]
bcLeft  == DirichletBC("V", 0 :> 2, "topological", {})
bcRight == DirichletBC("V", NCells :> 3, "topological", {})
bcQ     == DirichletBC("Q", 0 :> 4, "topological", {})
bcSub   == DirichletBC("Vsub", 1 :> 5, "topological", {})
bcPoint == DirichletBC("V", 0 :> 6, "pointwise", {})
bcShared == DirichletBC("V", Half :> 7, "geometric", {Half})
bcPointShared == DirichletBC("V", Half :> 8, "pointwise", {Half})

BcLists == { <<>>, <<bcLeft>>, <<bcLeft, bcRight>>, <<bcQ>>,
             <<bcLeft, bcQ>>, <<bcSub>> }

\* the dofs of a condition whose values the process has before a gather
local_dofs(bc) ==
  IF nproc > 1 THEN DOMAIN bc.values \ bc.remote ELSE DOMAIN bc.values

\* DirichletBC::get_boundary_values(map): merge the condition's values
get_boundary_values(bc, map) ==
  [d \in local_dofs(bc) |-> bc.values[d]] @@ map

\* DirichletBC::gather(map): the values found by the other processes for
\* the dofs shared with this process are added to the map
gather(bc, map) ==
  map @@ [d \in DOMAIN bc.values \ local_dofs(bc) |-> bc.values[d]]

EmptyMap == [d \in {} |-> 0]

\* "MPI::size(mesh.mpi_comm()) > 1 and bcs[i]->method() != pointwise"
needs_gather(bc) == nproc > 1 /\ bc.method # "pointwise"

\* The loop "for each bc: if space->contains(bc space) get_boundary_values,
\* and gather when needed"
RECURSIVE collect(_, _, _)
collect(space, list, k) ==
  IF k = 0 THEN EmptyMap
  ELSE LET acc == collect(space, list, k - 1)
       IN IF contains(space, list[k].space)
            THEN IF needs_gather(list[k])
                   THEN gather(list[k], get_boundary_values(list[k], acc))
                   ELSE get_boundary_values(list[k], acc)
            ELSE acc

\* (variant: the gather is made whatever the method of the condition)
bc_calls_gather_always(space, axis, list, k) ==
  IF contains(space, list[k].space)
    THEN <<[kind |-> "get_boundary_values", bc |-> k, axis |-> axis]>>
         \o (IF nproc > 1
               THEN <<[kind |-> "gather", bc |-> k, axis |-> axis]>>
               ELSE <<>>)
    ELSE <<>>

\* the calls made on the condition list[k] for the space of an axis
bc_calls(space, axis, list, k) ==
  IF contains(space, list[k].space)
    THEN <<[kind |-> "get_boundary_values", bc |-> k, axis |-> axis]>>
         \o (IF needs_gather(list[k])
               THEN <<[kind |-> "gather", bc |-> k, axis |-> axis]>>
               ELSE <<>>)
    ELSE <<>>

\* the calls made by the loop over the conditions for one space (apply_bc,
\* set_bc), and by the loop over the conditions and the two axes (core)
RECURSIVE collect_calls(_, _, _, _)
collect_calls(space, axis, list, k) ==
  IF k = 0 THEN <<>>
  ELSE collect_calls(space, axis, list, k - 1)
       \o bc_calls(space, axis, list, k)

RECURSIVE core_calls(_, _, _, _)
core_calls(s0, s1, list, k) ==
  IF k = 0 THEN <<>>
  ELSE core_calls(s0, s1, list, k - 1)
       \o bc_calls(s0, 0, list, k) \o bc_calls(s1, 1, list, k)

\* ------------------------------------------------------------------------
\* Block form collections  a[i][j]  (null entries listed in `null`)
\* ------------------------------------------------------------------------
\* and  L[i]  (null entries listed in `lnull`); a[i][j] is a form on the
\* spaces (rows[i], cols[j]) and L[i] a form on rows[i]
\* FiniteElement::signature() of the element of a function space
signature(s) == IF s = "Q" THEN "P0" ELSE "P1"

\* the generated code given with the forms: it expects the elements of the
\* spaces, or another element for the arguments in V
UfcForms ==
  { [s \in Spaces |-> signature(s)],
    [s \in Spaces |-> IF s = "V" THEN "P2" ELSE signature(s)] }

\* Form::check() of a form whose generated code has the given rank (form_rank), number
\* of coefficients and element signatures, and which holds the given
\* function spaces and coefficients: the error raised, "" if none
check(form_rank, num_coefficients, signatures, function_spaces, coefs) ==
  IF form_rank # Len(function_spaces)
    THEN "Expecting function spaces"
  ELSE IF num_coefficients # Len(coefs)
    THEN "Expecting coefficient"
  ELSE IF \E i \in 1 .. Len(function_spaces) :
            signatures[i] # signature(function_spaces[i])
    THEN "Wrong type of function space for argument"
  ELSE ""

\* a collection given to the constructor: the row and column spaces of a
\* (for a vector call, rows holds the spaces of L), the null blocks of a
\* and of L, and arows = _a.size()
Sys(rs, cs, nl, ln) ==
  [rows |-> rs, cols |-> cs, null |-> nl, lnull |-> ln, arows |-> Len(rs)]

BlockSystems ==
  { Sys(<<"V">>, <<"V">>, {}, {}),
    Sys(<<"Q">>, <<"V">>, {}, {}),
    Sys(<<"V", "Q">>, <<"V", "Q">>, {}, {}),
    Sys(<<"V", "Q">>, <<"V", "Q">>, {<<1, 1>>}, {}),
    Sys(<<"V", "Q">>, <<"V", "Q">>, {<<0, 1>>}, {}),
    Sys(<<"V">>, <<"V", "Q">>, {}, {}) }

VectorSystems ==
  { Sys(<<"V">>, <<"V">>, {}, {}),
    Sys(<<"V", "Q">>, <<"V", "Q">>, {}, {}),
    Sys(<<"V", "Q">>, <<"V", "Q">>, {}, {1}),
    \* L longer, and L shorter, than a has rows
    [Sys(<<"V", "Q">>, <<"V", "Q">>, {}, {}) EXCEPT !.arows = 1],
    [Sys(<<"V">>, <<"V">>, {}, {}) EXCEPT !.arows = 2] }

BlockTypes == {"nested", "monolithic", "single"}

nrows == Len(sys.rows)      \* _a.size()
ncols == Len(sys.cols)      \* _a[0].size()
NonNull(i, j) == <<i, j>> \notin sys.null       \* if (_a[i][j])
space0(i) == sys.rows[i + 1]     \* _a[i][j]->function_space(0)
space1(j) == sys.cols[j + 1]     \* _a[i][j]->function_space(1)

\* ------------------------------------------------------------------------
\* Storage collaborator (la::PETScMatrix)
\* ------------------------------------------------------------------------
RECURSIVE total_size(_, _)
total_size(spaces, k) ==
  IF k = 0 THEN 0 ELSE total_size(spaces, k - 1) + map_size(spaces[k])

NoMatrix == [type |-> "none", m |-> 0, n |-> 0, val |-> EmptyMap]

\* one unblocked matrix of m x n entries
AijMatrix(m, n) ==
  [type |-> "aij", m |-> m, n |-> n,
   val |-> [p \in (0 .. (m - 1)) \X (0 .. (n - 1)) |-> 0]]

\* fem::init_matrix(a): sized by the two spaces of the form
init_matrix(s0, s1) == AijMatrix(map_size(s0), map_size(s1))

\* fem::init_monolithic_matrix(forms): one matrix for all blocks
init_monolithic_matrix(s) ==
  AijMatrix(total_size(s.rows, Len(s.rows)), total_size(s.cols, Len(s.cols)))

\* fem::init_nest_matrix(forms): one sub-object per non-null block
init_nest_matrix(s) ==
  [type |-> "nest", m |-> 0, n |-> 0,
   val |-> [p \in { <<i, j, r, c>> \in
                      (0 .. (Len(s.rows) - 1)) \X (0 .. (Len(s.cols) - 1))
                      \X (0 .. NCells) \X (0 .. NCells) :
                      /\ <<i, j>> \notin s.null
                      /\ r < map_size(s.rows[i + 1])
                      /\ c < map_size(s.cols[j + 1]) } |-> 0]]

WholeView == [kind |-> "whole", i |-> 0, j |-> 0, off0 |-> 0, off1 |-> 0]
SubView(i, j) == [kind |-> "sub", i |-> i, j |-> j, off0 |-> 0, off1 |-> 0]
\* (variant: is1 is numbered from the row offset)
LocalView_row_offset(i, j, o0, o1) ==
  [kind |-> "local", i |-> i, j |-> j, off0 |-> o0, off1 |-> o0]

\* MatGetLocalSubMatrix(A, is0, is1) with is0 = offset_row + 0, 1, ...
LocalView(i, j, o0, o1) ==
  [kind |-> "local", i |-> i, j |-> j, off0 |-> o0, off1 |-> o1]

\* physical entry addressed by row r, column c of the view
Loc(v, r, c) ==
  IF v.kind = "sub" THEN <<v.i, v.j, r, c>> ELSE <<v.off0 + r, v.off1 + c>>

RECURSIVE SumPairs(_, _)
SumPairs(S, T) ==
  IF S = {} THEN 0
  ELSE LET x == CHOOSE y \in S : TRUE
       IN T[x[1]][x[2]] + SumPairs(S \ {x}, T)

\* (variant: the values are inserted, not added)
add_local_insert(val, v, T, dmap0, dmap1) ==
  [p \in DOMAIN val |->
     LET S == { x \in (1 .. Len(dmap0)) \X (1 .. Len(dmap1)) :
                  Loc(v, dmap0[x[1]], dmap1[x[2]]) = p }
     IN IF S = {} THEN val[p] ELSE SumPairs(S, T)]

\* PETScMatrix::add_local(values, rows, cols): MatSetValuesLocal ADD_VALUES
add_local(val, v, T, dmap0, dmap1) ==
  [p \in DOMAIN val |->
     val[p] + SumPairs({ x \in (1 .. Len(dmap0)) \X (1 .. Len(dmap1)) :
                           Loc(v, dmap0[x[1]], dmap1[x[2]]) = p }, T)]

\* PETScMatrix::set_local(&one, 1, &row, 1, &row) for every row of rows
set_local_diagonal(val, v, rows, one) ==
  [p \in DOMAIN val |->
     IF \E d \in rows : Loc(v, d, d) = p THEN one ELSE val[p]]

\* ------------------------------------------------------------------------
\* Assembler::assemble(la::PETScMatrix& A, const Form& a, bcs): the core
\* ------------------------------------------------------------------------
\* Ae.row(i).setZero() for every row whose dof is in boundary_values[0]
zero_rows(T, dmap0, b0) ==
  [r \in DOMAIN T |->
     [k \in DOMAIN T[r] |-> IF dmap0[r] \in DOMAIN b0 THEN 0 ELSE T[r][k]]]

\* (variant: the columns of constrained dofs are left as tabulated)
zero_cols_skipped(T, dmap1, b1) == T

\* Ae.col(j).setZero() for every column whose dof is in boundary_values[1]
zero_cols(T, dmap1, b1) ==
  [r \in DOMAIN T |->
     [k \in DOMAIN T[r] |-> IF dmap1[k] \in DOMAIN b1 THEN 0 ELSE T[r][k]]]

\* the physical rows / columns the dofs of a cell are inserted at
PhysRows(v, dmap0) == [k \in 1 .. Len(dmap0) |-> v.off0 + dmap0[k]]
PhysCols(v, dmap1) == [k \in 1 .. Len(dmap1) |-> v.off1 + dmap1[k]]

\* entry of the core: collect the boundary values of the two axes
EnterCore(v) ==
  /\ view' = v
  /\ bv0' = collect(space0(bi), bcs, Len(bcs))
  /\ bv1' = collect(space1(bj), bcs, Len(bcs))
  /\ events' = events \o core_calls(space0(bi), space1(bj), bcs, Len(bcs))
  /\ cell' = 0
  /\ pc' = "cells"

\* one iteration of the cell loop
CoreCell ==
  /\ op = "matrix" /\ pc = "cells" /\ cell < num_cells(rank)
  /\ LET dmap0 == cell_dofs(space0(bi), cell)
         dmap1 == cell_dofs(space1(bj), cell)
         T0 == tabulate_tensor(bi, bj, space0(bi), space1(bj), cell)
         T  == zero_cols(zero_rows(T0, dmap0, bv0), dmap1, bv1)
     IN /\ Ae' = T
        /\ A' = [A EXCEPT !.val = add_local(A.val, view, T, dmap0, dmap1)]
        /\ events' = Append(events,
                       [kind |-> "add", i |-> bi, j |-> bj, cell |-> cell,
                        rows |-> PhysRows(view, dmap0),
                        cols |-> PhysCols(view, dmap1)])
  /\ cell' = cell + 1
  /\ UNCHANGED <<inputs, rank, b, b_local, hint, pc, err, call, path, bi, bj, offset_row,
                 offset_col, view, bv0, bv1, finals, first>>

\* ------------------------------------------------------------------------
\* Assembler::assemble(la::PETScMatrix& A, BlockType block_type)
\* ------------------------------------------------------------------------
block_matrix == nrows > 1 \/ ncols > 1

\* A.empty(): initialise the matrix from the block type
InitialiseMatrix(M, block_type) ==
  IF M.type # "none" THEN M
  ELSE IF block_type = "nested" THEN init_nest_matrix(sys)
  ELSE IF block_matrix /\ block_type = "monolithic"
         THEN init_monolithic_matrix(sys)
  ELSE init_matrix(space0(0), space1(0))

\* (variant: the branch is taken from block_type)
MatrixPath_from_hint(M) ==
  IF hint = "nested" THEN "nested"
  ELSE IF block_matrix /\ hint = "monolithic" THEN "monolithic"
  ELSE "single"

\* MatGetType: the branch is taken from the matrix, not from block_type
MatrixPath(M) ==
  IF M.type = "nest" THEN "nested"
  ELSE IF block_matrix THEN "monolithic"
  ELSE "single"

AssembleInit ==
  /\ op = "matrix" /\ pc = "start"
  /\ A' = InitialiseMatrix(A, hint)
  /\ path' = MatrixPath(A')
  /\ events' = IF A.type = "none"
                 THEN <<[kind |-> "alloc", type |-> A'.type]>>
                 ELSE <<>>
  /\ bi' = 0 /\ bj' = 0 /\ offset_row' = 0 /\ offset_col' = 0
  /\ pc' = IF path' = "single" THEN "single" ELSE "block"
  /\ UNCHANGED <<inputs, rank, b, b_local, hint, err, call, view, cell, bv0, bv1, Ae,
                 finals, first>>

\* ++j, and ++i after the last column, of the loops over the blocks
LastBlock == bi = nrows - 1 /\ bj = ncols - 1
NextBlock ==
  /\ bj' = IF bj + 1 < ncols THEN bj + 1 ELSE 0
  /\ bi' = IF bj + 1 < ncols THEN bi ELSE bi + 1

\* nested path: one block of the double loop
NestedBlock ==
  /\ op = "matrix" /\ pc = "block" /\ path = "nested"
  /\ IF NonNull(bi, bj)
       THEN /\ EnterCore(SubView(bi, bj))
            /\ UNCHANGED <<bi, bj>>
       ELSE \* Null block, do nothing
            /\ NextBlock
            /\ pc' = IF LastBlock THEN "final" ELSE "block"
            /\ UNCHANGED <<view, bv0, bv1, cell, events>>
  /\ UNCHANGED <<inputs, rank, b, b_local, hint, err, call, path, offset_row, offset_col,
                 Ae, A, finals, first>>

\* nested path: the core has returned (no apply on the sub-object)
NestedBlockDone ==
  /\ op = "matrix" /\ pc = "cells" /\ path = "nested" /\ cell = num_cells(rank)
  /\ NextBlock
  /\ pc' = IF LastBlock THEN "final" ELSE "block"
  /\ UNCHANGED <<inputs, rank, b, b_local, hint, err, call, path, offset_row, offset_col,
                 view, cell, bv0, bv1, Ae, A, finals, events, first>>

\* monolithic path: one block of the double loop
MonolithicBlock ==
  /\ op = "matrix" /\ pc = "block" /\ path = "monolithic"
  /\ IF NonNull(bi, bj)
       THEN IF /\ offset_row + map_size(space0(bi)) <= A.m
               /\ offset_col + map_size(space1(bj)) <= A.n
              THEN /\ EnterCore(LocalView(bi, bj, offset_row, offset_col))
                   /\ UNCHANGED err
              ELSE \* the index sets do not address rows/columns of A
                   /\ pc' = "error"
                   /\ err' = "index set out of range"
                   /\ UNCHANGED <<view, bv0, bv1, cell, events>>
       ELSE /\ pc' = "error"
            /\ err' = "Null block not supported/tested yet."
            /\ UNCHANGED <<view, bv0, bv1, cell, events>>
  /\ UNCHANGED <<inputs, rank, b, b_local, hint, call, path, bi, bj, offset_row,
                 offset_col, Ae, A, finals, first>>

\* monolithic path: the core has returned; advance the offsets
MonolithicBlockDone ==
  /\ op = "matrix" /\ pc = "cells" /\ path = "monolithic" /\ cell = num_cells(rank)
  /\ IF bj + 1 < ncols
       THEN /\ offset_col' = offset_col + map_size(space1(bj))
            /\ UNCHANGED offset_row
       ELSE /\ offset_col' = 0
            /\ offset_row' = offset_row + map_size(space0(bi))
  /\ NextBlock
  /\ pc' = IF LastBlock THEN "mono_final" ELSE "block"
  /\ UNCHANGED <<inputs, rank, b, b_local, hint, err, call, path, view, cell, bv0, bv1,
                 Ae, A, finals, events, first>>

\* monolithic path: A.apply(FINAL) at the end of the branch
MonolithicFinal ==
  /\ op = "matrix" /\ pc = "mono_final"
  /\ finals' = finals + 1
  /\ events' = Append(events, [kind |-> "final"])
  /\ pc' = "final"
  /\ UNCHANGED <<inputs, rank, b, b_local, hint, err, call, path, bi, bj, offset_row,
                 offset_col, view, cell, bv0, bv1, Ae, A, first>>

\* single path: assemble the only form into A
SingleBlock ==
  /\ op = "matrix" /\ pc = "single"
  /\ EnterCore(WholeView)
  /\ UNCHANGED <<inputs, rank, b, b_local, hint, err, call, path, bi, bj, offset_row,
                 offset_col, Ae, A, finals, first>>

\* single path: place '1' on the diagonal of the constrained dofs
SingleDiagonal ==
  /\ op = "matrix" /\ pc = "cells" /\ path = "single" /\ cell = num_cells(rank)
  /\ IF space0(0) = space1(0)
       THEN LET boundary_values == collect(space0(0), bcs, Len(bcs))
            IN /\ A' = [A EXCEPT !.val = set_local_diagonal(
                                   A.val, WholeView, DOMAIN boundary_values, 1)]
               /\ events' = Append(events,
                     [kind |-> "set", rows |-> DOMAIN boundary_values])
       ELSE UNCHANGED <<A, events>>
  /\ pc' = "final"
  /\ UNCHANGED <<inputs, rank, b, b_local, hint, err, call, path, bi, bj, offset_row,
                 offset_col, view, cell, bv0, bv1, Ae, finals, first>>

\* A.apply(FINAL) at the end of assemble
FinalApply ==
  /\ op = "matrix" /\ pc = "final"
  /\ finals' = finals + 1
  /\ events' = Append(events, [kind |-> "final"])
  /\ first' = IF call = 1 THEN A.val ELSE first
  /\ pc' = "done"
  /\ UNCHANGED <<inputs, rank, b, b_local, hint, err, call, path, bi, bj, offset_row,
                 offset_col, view, cell, bv0, bv1, Ae, A>>

\* the caller assembles again into the same, now initialised, target
CallAgain ==
  /\ op \in {"matrix", "vector"} /\ pc = "done" /\ call < MaxCalls
  /\ \E h \in BlockTypes : hint' = h
  /\ call' = call + 1
  /\ pc' = "start"
  /\ finals' = 0
  /\ events' = <<>>
  /\ UNCHANGED <<inputs, rank, b, b_local, err, path, bi, bj, offset_row, offset_col,
                 view, cell, bv0, bv1, Ae, A, first>>

\* ------------------------------------------------------------------------
\* Storage collaborator (la::PETScVector)
\* ------------------------------------------------------------------------
Procs == 0 .. (nproc - 1)

\* a distributed vector: on process p, owned[p] owned entries followed by
\* nghost[p] ghost slots; the entries are addressed by <<p, local index>>
GhostedVector(own, ngh) ==
  [type |-> "vec", owned |-> own, nghost |-> ngh,
   val |-> [k \in { <<p, l>> \in Procs \X (0 .. (2 * NCells + 1)) :
                      l < own[p] + ngh[p] } |-> 0]]

\* fem::init_vector(L): the layout of the space of L
init_vector(s) ==
  GhostedVector([p \in Procs |-> owned_size(p, s)],
                [p \in Procs |-> Len(ghosts(p, s))])

RECURSIVE total_owned(_, _, _)
total_owned(p, spaces, k) ==
  IF k = 0 THEN 0
  ELSE total_owned(p, spaces, k - 1) + owned_size(p, spaces[k])

\* fem::init_monolithic(forms): the owned dofs of all blocks, no ghosts
init_monolithic(s) ==
  GhostedVector([p \in Procs |-> total_owned(p, s.rows, Len(s.rows))],
                [p \in Procs |-> 0])

\* fem::init_nest(forms): one ghosted sub-vector per non-null block
init_nest(s) ==
  [type |-> "nest", owned |-> <<>>, nghost |-> <<>>,
   val |-> [k \in { <<i, p, l>> \in
                      (0 .. (Len(s.rows) - 1)) \X Procs \X (0 .. NCells) :
                      /\ i \notin s.lnull
                      /\ l < local_size(p, s.rows[i + 1]) } |-> 0]]

\* owner of the global dof n of a space
owner_of(s, n) ==
  CHOOSE p \in Procs :
    owned_first(p, s) <= n /\ n < owned_first(p, s) + owned_size(p, s)

RECURSIVE sum_first(_, _, _, _)
sum_first(own, spaces, skip, k) ==
  IF k = 0 THEN 0
  ELSE sum_first(own, spaces, skip, k - 1)
       + (IF k = skip THEN 0 ELSE owned_first(own, spaces[k]))

\* fem::get_global_index(index_maps, field, n): index of dof n of a field
\* in the combined numbering (each process owns its dofs of field 0, then
\* of field 1, ...)
get_global_index(spaces, field, n) ==
  LET own == owner_of(spaces[field + 1], n)
  IN n + sum_first(own, spaces, field + 1, Len(spaces))
       + total_owned(own, spaces, field)

\* number of entries of a distributed vector, and the entry holding the
\* global index G (the owned entry of the owning process)
vec_size(v) == IF nproc = 1 THEN v.owned[0] ELSE v.owned[0] + v.owned[1]
vec_entry(v, G) ==
  IF G < v.owned[0] THEN <<0, G>> ELSE <<1, G - v.owned[0]>>

RECURSIVE SumKeys(_, _)
SumKeys(S, f) ==
  IF S = {} THEN 0
  ELSE LET x == CHOOSE y \in S : TRUE IN f[x] + SumKeys(S \ {x}, f)

\* PETScVector::add(values, n, global indices) followed, at apply(), by
\* the exchange of the entries set on other processes: buf holds the
\* buffer of every process, G[<<p, l>>] is its local-to-global map
vec_add(v, buf, G) ==
  [k \in DOMAIN v.val |->
     v.val[k] + SumKeys({ x \in DOMAIN buf :
                            vec_entry(v, G[x]) = k }, buf)]

\* the ghost slots <<p, l>> of a space, and the owned entry <<q, l'>> of
\* the process that owns the dof of a slot
GhostSlots(s) ==
  { x \in Procs \X (0 .. NCells) :
      x[2] >= owned_size(x[1], s) /\ x[2] < local_size(x[1], s) }
OwnerEntry(s, x) ==
  LET g == local_to_global(x[1], s, x[2])
      q == owner_of(s, g)
  IN <<q, g - owned_first(q, s)>>

\* VecGhostUpdateBegin/End(ADD_VALUES, SCATTER_REVERSE) on a vector of the
\* space s whose entries are val[key[<<p, l>>]]: the value of every ghost slot
\* is added to the owned entry of the owning process
\* (variant: the ghost slots are not sent to the owners)
ghost_update_skipped(val, s, key) == val

ghost_update(val, s, key) ==
  [k \in DOMAIN val |->
     val[k] + SumKeys({ x \in GhostSlots(s) : key[OwnerEntry(s, x)] = k },
                      [x \in GhostSlots(s) |-> val[key[x]]])]

\* ------------------------------------------------------------------------
\* Assembler::assemble(Eigen::Ref<EigenVectorXd> b, const Form& L)
\* ------------------------------------------------------------------------
LNonNull(i) == i \notin sys.lnull      \* if (_l[i])

\* b[dmap[i]] += be[i] for the entries of the buffer of this process
add_cell_vector(val, be, dmap, key) ==
  [k \in DOMAIN val |->
     val[k] + SumKeys({ r \in 1 .. Len(dmap) : key[<<rank, dmap[r]>>] = k }, be)]

\* the entry of the target that holds local index x[2] of process x[1]
NestKey == [x \in Procs \X (0 .. NCells) |-> <<bi, x[1], x[2]>>]
VecKey == [x \in Procs \X (0 .. NCells) |-> x]

\* the cell loop has been run by every process
CellsDone == rank = nproc - 1 /\ cell = num_cells(rank)

\* one iteration of the cell loop on one process
VecCell ==
  /\ op = "vector" /\ pc = "cells" /\ cell < num_cells(rank)
  /\ LET dmap == cell_dofs(space0(bi), cell)
         be == tabulate_vector(bi, space0(bi), cell)
     IN /\ IF path = "monolithic"
             THEN /\ b_local' = add_cell_vector(b_local, be, dmap, VecKey)
                  /\ UNCHANGED b
             ELSE /\ b' = [b EXCEPT !.val =
                             IF path = "nested"
                               THEN add_cell_vector(b.val, be, dmap, NestKey)
                               ELSE add_cell_vector(b.val, be, dmap, VecKey)]
                  /\ UNCHANGED b_local
        /\ events' = Append(events,
                       [kind |-> "add", i |-> bi, rank |-> rank,
                        cell |-> cell, rows |-> dmap])
  /\ IF cell + 1 = num_cells(rank) /\ rank + 1 < nproc
       THEN rank' = rank + 1 /\ cell' = 0     \* the next process's loop
       ELSE rank' = rank /\ cell' = cell + 1
  /\ UNCHANGED <<inputs, hint, pc, err, call, path, bi, bj, offset_row,
                 offset_col, view, bv0, bv1, Ae, A, finals, first>>

\* ------------------------------------------------------------------------
\* Assembler::assemble(la::PETScVector& b, BlockType block_type)
\* ------------------------------------------------------------------------
block_vector == Len(sys.rows) > 1      \* _l.size() > 1

\* std::vector<const Form*> forms(_a.size()) filled from _l: the forms
\* handed to init_nest and init_monolithic (entries past _l.size() stay
\* null and give no entry; entries past _a.size() are not part of forms)
vector_forms ==
  [sys EXCEPT !.rows = IF Len(sys.rows) > sys.arows
                         THEN SubSeq(sys.rows, 1, sys.arows)
                         ELSE sys.rows]

\* b.empty(): initialise the vector from the block type
InitialiseVector(v, block_type) ==
  IF v.type # "none" THEN v
  ELSE IF block_type = "nested" THEN init_nest(vector_forms)
  ELSE IF block_vector /\ block_type = "monolithic"
    THEN init_monolithic(vector_forms)
  ELSE init_vector(space0(0))

\* VecGetType: the branch is taken from the vector, not from block_type
VectorPath(v) ==
  IF v.type = "nest" THEN "nested"
  ELSE IF block_vector THEN "monolithic"
  ELSE "single"

VecAssembleInit ==
  /\ op = "vector" /\ pc = "start"
  /\ \/ /\ b' = InitialiseVector(b, hint)
        /\ path' = VectorPath(b')
        /\ events' = IF b.type = "none"
                       THEN <<[kind |-> "alloc", type |-> b'.type]>>
                       ELSE <<>>
        /\ bi' = 0 /\ offset_row' = 0
        /\ pc' = IF path' = "single" THEN "single"
                 ELSE IF path' = "monolithic" THEN "maps" ELSE "block"
        /\ UNCHANGED err
     \/ \* forms[i] = _l[i].get() with i >= forms.size(): the write is
        \* outside the array, which may also end the call
        /\ b.type = "none" /\ Len(sys.rows) > sys.arows
        /\ pc' = "error" /\ err' = "write past the end of forms"
        /\ UNCHANGED <<b, path, events, bi, offset_row>>
  /\ UNCHANGED <<inputs, rank, hint, call, bj, offset_col, view, cell,
                 bv0, bv1, Ae, A, b_local, finals, first>>

\* the call returns: remember what the first call left in the target
VecReturn(val) ==
  /\ pc' = "done"
  /\ first' = IF call = 1 THEN val ELSE first

\* nested path: one block of the loop
VecNestedBlock ==
  /\ op = "vector" /\ pc = "block" /\ path = "nested"
  /\ IF bi >= sys.arows
       THEN \* VecNestGetSubVec(b.vec(), i, &sub_b): b has no sub-vector i
            /\ pc' = "error" /\ err' = "sub-vector index out of range"
            /\ UNCHANGED <<bi, first, rank, cell>>
       ELSE IF LNonNull(bi)
       THEN \* VecGhostGetLocalForm and the call of the core
            /\ rank' = 0 /\ cell' = 0 /\ pc' = "cells"
            /\ UNCHANGED <<bi, first, err>>
       ELSE \* WARNING: null linear form
            /\ bi' = bi + 1
            /\ IF bi + 1 = nrows
                 THEN VecReturn(b.val)
                 ELSE pc' = "block" /\ UNCHANGED first
            /\ UNCHANGED <<rank, cell, err>>
  /\ UNCHANGED <<inputs, hint, call, path, bj, offset_row, offset_col,
                 view, bv0, bv1, Ae, A, b, b_local, finals, events>>

\* nested path: VecGhostRestoreLocalForm, then accumulate the ghosts of
\* sub-vector i on the owners
VecNestedGhostUpdate ==
  /\ op = "vector" /\ pc = "cells" /\ path = "nested" /\ CellsDone
  /\ b' = [b EXCEPT !.val = ghost_update(b.val, space0(bi), NestKey)]
  /\ events' = events \o <<[kind |-> "restore", i |-> bi],
                            [kind |-> "ghost_update", i |-> bi]>>
  /\ bi' = bi + 1
  /\ rank' = 0
  /\ IF bi + 1 = nrows
       THEN VecReturn(b'.val)
       ELSE pc' = "block" /\ UNCHANGED first
  /\ UNCHANGED <<inputs, hint, err, call, path, bj, offset_row, offset_col,
                 view, cell, bv0, bv1, Ae, A, b_local, finals>>

\* monolithic path: collect the index maps of all the forms of _l
VecMonolithicMaps ==
  /\ op = "vector" /\ pc = "maps"
  /\ \/ \* every _l[i] is a form, or the read through the null pointer
        \* yields a map and the call goes on
        /\ pc' = "block" /\ UNCHANGED err
     \/ \* _l[i]->function_space(0) on a null pointer ends the call
        /\ sys.lnull # {}
        /\ pc' = "error" /\ err' = "null pointer dereference"
  /\ UNCHANGED <<inputs, rank, hint, call, path, bi, bj, offset_row,
                 offset_col, view, cell, bv0, bv1, Ae, A, b, b_local, finals,
                 events, first>>

\* monolithic path: one block of the loop, b_local.setZero()
VecMonolithicBlock ==
  /\ op = "vector" /\ pc = "block" /\ path = "monolithic"
  /\ IF LNonNull(bi)
       THEN /\ b_local' = [k \in { <<p, l>> \in Procs \X (0 .. NCells) :
                                     l < local_size(p, space0(bi)) } |-> 0]
            /\ rank' = 0 /\ cell' = 0 /\ pc' = "cells"
            /\ UNCHANGED bi
       ELSE /\ bi' = bi + 1
            /\ pc' = IF bi + 1 = nrows THEN "apply" ELSE "block"
            /\ UNCHANGED <<b_local, rank, cell>>
  /\ UNCHANGED <<inputs, hint, err, call, path, bj, offset_row, offset_col,
                 view, bv0, bv1, Ae, A, b, finals, events, first>>

\* the local-to-global map of block i built by every process
CombinedIndex(p, l) ==
  get_global_index(sys.rows, bi, local_to_global(p, space0(bi), l))

\* monolithic path: b.add(b_local, map_size, local_to_global_map)
VecMonolithicAdd ==
  /\ op = "vector" /\ pc = "cells" /\ path = "monolithic" /\ CellsDone
  /\ IF \A k \in DOMAIN b_local : CombinedIndex(k[1], k[2]) < vec_size(b)
       THEN /\ b' = [b EXCEPT !.val = vec_add(b, b_local,
                              [k \in DOMAIN b_local |-> CombinedIndex(k[1], k[2])])]
            /\ events' = Append(events,
                  [kind |-> "add_global", i |-> bi,
                   rows |-> { CombinedIndex(k[1], k[2]) : k \in DOMAIN b_local }])
            /\ offset_row' = offset_row + map_size(space0(bi))
            /\ bi' = bi + 1
            /\ rank' = 0
            /\ pc' = IF bi + 1 = nrows THEN "apply" ELSE "block"
            /\ UNCHANGED err
       ELSE \* an index is not an entry of b
            /\ pc' = "error"
            /\ err' = "index out of range"
            /\ UNCHANGED <<b, events, offset_row, bi, rank>>
  /\ UNCHANGED <<inputs, hint, call, path, bj, offset_col, view, cell, bv0,
                 bv1, Ae, A, b_local, finals, first>>

\* monolithic path: b.apply() after the loop
VecMonolithicApply ==
  /\ op = "vector" /\ pc = "apply"
  /\ finals' = finals + 1
  /\ events' = Append(events, [kind |-> "final"])
  /\ UNCHANGED b
  /\ VecReturn(b.val)
  /\ UNCHANGED <<inputs, rank, hint, err, call, path, bi, bj, offset_row,
                 offset_col, view, cell, bv0, bv1, Ae, A, b_local>>

\* single path: the local form of b is handed to the core
VecSingleBlock ==
  /\ op = "vector" /\ pc = "single"
  /\ rank' = 0 /\ cell' = 0 /\ pc' = "cells"
  /\ UNCHANGED <<inputs, hint, err, call, path, bi, bj, offset_row,
                 offset_col, view, bv0, bv1, Ae, A, b, b_local, finals,
                 events, first>>

\* single path: accumulate the ghosts on the owners
VecSingleGhostUpdate ==
  /\ op = "vector" /\ pc = "cells" /\ path = "single" /\ CellsDone
  /\ b' = [b EXCEPT !.val = ghost_update(b.val, space0(0), VecKey)]
  /\ events' = events \o <<[kind |-> "restore", i |-> 0],
                            [kind |-> "ghost_update", i |-> 0]>>
  /\ rank' = 0
  /\ VecReturn(b'.val)
  /\ UNCHANGED <<inputs, hint, err, call, path, bi, bj, offset_row,
                 offset_col, view, cell, bv0, bv1, Ae, A, b_local, finals>>

NoVector == [type |-> "none", owned |-> <<>>, nghost |-> <<>>, val |-> EmptyMap]

NoForm == [spaces |-> <<>>, mesh |-> "null", dx |-> "null", ds |-> "null",
           dS |-> "null", dP |-> "null", coefficients |-> <<>>]

\* the state of an Assembler before its first call
Idle ==
  /\ rank = 0
  /\ pc = "start" /\ err = "" /\ call = 1 /\ path = "none"
  /\ bi = 0 /\ bj = 0 /\ offset_row = 0 /\ offset_col = 0
  /\ view = WholeView /\ cell = 0
  /\ bv0 = EmptyMap /\ bv1 = EmptyMap /\ Ae = <<>>
  /\ b_local = EmptyMap /\ finals = 0 /\ events = <<>> /\ first = EmptyMap

Init ==
  /\ \/ /\ op = "matrix" /\ nproc = 1
        /\ sys \in BlockSystems
        /\ bcs \in BcLists
     \/ /\ op = "vector" /\ nproc \in {1, 2}
        /\ sys \in VectorSystems
        /\ bcs = <<>>
  /\ hint \in BlockTypes
  /\ ufc \in UfcForms
  /\ Idle
  /\ A = NoMatrix /\ b = NoVector
  /\ pre = EmptyMap /\ form = NoForm /\ res = "none"

Next ==
  \/ AssembleInit
  \/ NestedBlock
  \/ NestedBlockDone
  \/ MonolithicBlock
  \/ MonolithicBlockDone
  \/ MonolithicFinal
  \/ SingleBlock
  \/ CoreCell
  \/ SingleDiagonal
  \/ FinalApply
  \/ VecAssembleInit
  \/ VecNestedBlock
  \/ VecCell
  \/ VecNestedGhostUpdate
  \/ VecMonolithicMaps
  \/ VecMonolithicBlock
  \/ VecMonolithicAdd
  \/ VecMonolithicApply
  \/ VecSingleBlock
  \/ VecSingleGhostUpdate
  \/ CallAgain

Spec == Init /\ [][Next]_vars

\* ------------------------------------------------------------------------
\* Properties of matrix and vector assembly
\* ------------------------------------------------------------------------
\* the dofs of a space constrained by the conditions given to the call
ConstrainedDofs(s) ==
  UNION { DOMAIN bcs[k].values :
            k \in { n \in 1 .. Len(bcs) : contains(s, bcs[n].space) } }

\* diagonal blocks whose row and column spaces are the same space
DiagBlocks ==
  { i \in 0 .. ((IF nrows < ncols THEN nrows ELSE ncols) - 1) :
      NonNull(i, i) /\ space0(i) = space1(i) }

\* row r, column c of block (i, j) of the assembled matrix
Entry(i, j, r, c) ==
  IF A.type = "nest" THEN A.val[<<i, j, r, c>>]
  ELSE A.val[<<total_size(sys.rows, i) + r, total_size(sys.cols, j) + c>>]

BlockDofs(s) == 0 .. (map_size(s) - 1)

\* what one assembly of block (i, j) contributes to its entry (r, c)
Contribution(i, j, r, c) ==
  LET s0 == space0(i)
      s1 == space1(j)
      X == (0 .. (num_cells(rank) - 1)) \X (1 .. 2) \X (1 .. 2)
      K == [x \in X |->
              IF r \in ConstrainedDofs(s0) \/ c \in ConstrainedDofs(s1)
                THEN 0
                ELSE tabulate_tensor(i, j, s0, s1, x[1])[x[2]][x[3]]]
  IN SumKeys({ x \in X :
                 /\ x[2] <= Len(cell_dofs(s0, x[1]))
                 /\ x[3] <= Len(cell_dofs(s1, x[1]))
                 /\ cell_dofs(s0, x[1])[x[2]] = r
                 /\ cell_dofs(s1, x[1])[x[3]] = c }, K)

\* C1: after a full matrix assembly with boundary conditions, in the single
\* and in the nested layout, the diagonal entry (d, d) of every diagonal
\* block with identical row and column space is exactly 1 for every
\* constrained dof d of the block.
C1_UnitDiagonal ==
  (op = "matrix" /\ pc = "done" /\ path \in {"single", "nested"}) =>
    \A i \in DiagBlocks : \A d \in ConstrainedDofs(space0(i)) :
      Entry(i, i, d, d) = 1

\* C2: the local tensor passed to add_local has entry (i, j) zero when the
\* i-th row dof is constrained on axis 0 or the j-th column dof is
\* constrained on axis 1 and the tabulated value otherwise; after assembly,
\* in every layout, the off-diagonal entries of the row and of the column of
\* a constrained dof of a diagonal block are zero.
C2_ZeroedRowsAndColumns ==
  op = "matrix" =>
    /\ (pc = "cells" /\ cell > 0) =>
         LET c == cell - 1
             dmap0 == cell_dofs(space0(bi), c)
             dmap1 == cell_dofs(space1(bj), c)
             T == tabulate_tensor(bi, bj, space0(bi), space1(bj), c)
         IN /\ DOMAIN Ae = 1 .. Len(dmap0)
            /\ \A r \in 1 .. Len(dmap0) : \A k \in 1 .. Len(dmap1) :
                 Ae[r][k] = IF \/ dmap0[r] \in ConstrainedDofs(space0(bi))
                               \/ dmap1[k] \in ConstrainedDofs(space1(bj))
                              THEN 0 ELSE T[r][k]
    /\ pc = "done" =>
         \A i \in DiagBlocks : \A d \in ConstrainedDofs(space0(i)) :
           \A c \in BlockDofs(space0(i)) \ {d} :
             Entry(i, i, d, c) = 0 /\ Entry(i, i, c, d) = 0

C2_Witness ==
  /\ op = "matrix" /\ pc = "done" /\ path = "monolithic"
  /\ \E i \in DiagBlocks : \E d \in ConstrainedDofs(space0(i)) :
       \E r, c \in BlockDofs(space0(i)) \ {d} : Entry(i, i, r, c) > 0

NullBlockMessage == "Null block not supported/tested yet."

\* C4: in the monolithic matrix path a structural error is raised exactly
\* when some diagonal block a[i][i] is null; a null off-diagonal block
\* raises no error and the other blocks are assembled.
C4_ErrorIffNullDiagonal ==
  (op = "matrix" /\ path = "monolithic") =>
    /\ (pc = "error" /\ err = NullBlockMessage) =>
         \E i \in 0 .. (nrows - 1) : <<i, i>> \in sys.null
    /\ pc = "done" => \A i \in 0 .. (nrows - 1) : <<i, i>> \notin sys.null

\* C5: assemble on an uninitialised matrix or vector with the hint `single`
\* and more than one block is rejected with an error: no target is
\* allocated and no cell contribution is inserted.
C5_SingleHintRejected ==
  (/\ call = 1 /\ hint = "single" /\ pc # "start"
   /\ \/ op = "matrix" /\ block_matrix
      \/ op = "vector" /\ block_vector) =>
    /\ pc = "error"
    /\ A.type = "none" /\ b.type = "none"
    /\ \A n \in 1 .. Len(events) : events[n].kind # "add"

\* C6: in one matrix assemble call the final (barrier) finalisation of the
\* physical matrix is performed exactly once in the monolithic and in the
\* single layout, after the last insertion; in the nested layout every
\* non-null block's sub-object is finalised before the parent.
C6_FinalisedOnce ==
  (op = "matrix" /\ pc = "done") =>
    /\ path \in {"monolithic", "single"} => finals = 1
    /\ events[Len(events)].kind = "final"
    /\ path = "nested" =>
         \A i \in 0 .. (nrows - 1) : \A j \in 0 .. (ncols - 1) :
           NonNull(i, j) =>
             \E n \in 1 .. Len(events) :
               /\ events[n].kind = "subfinal"
               /\ events[n].i = i /\ events[n].j = j

\* the contents of the target of the running operation
Target == IF op = "matrix" THEN A.val ELSE b.val

\* entries of the single matrix layout set by the diagonal set_local
OverwrittenDiagonal ==
  IF op = "matrix" /\ path = "single" /\ space0(0) = space1(0)
    THEN { <<d, d>> : d \in ConstrainedDofs(space0(0)) }
    ELSE {}

\* what the ghost slots held for the entry k of a ghosted vector after the
\* first call (the slots are not reset by the reverse accumulation)
StaleGhosts(k) ==
  IF op = "vector" /\ path \in {"nested", "single"}
    THEN LET i == IF path = "nested" THEN k[1] ELSE 0
             s == space0(i)
             key(p, l) == IF path = "nested" THEN <<i, p, l>> ELSE <<p, l>>
         IN SumKeys({ x \in GhostSlots(s) :
                        LET o == OwnerEntry(s, x) IN key(o[1], o[2]) = k },
                    [x \in GhostSlots(s) |-> first[key(x[1], x[2])]])
    ELSE 0

LiftSystems ==
  { Sys(<<"V">>, <<"V">>, {}, {}),
    Sys(<<"W">>, <<"V">>, {}, {}),
    Sys(<<"Q">>, <<"V">>, {}, {}),
    Sys(<<"V">>, <<"Q">>, {}, {}) }

\* contents of the vector before the call
PreloadValues == {0, 10}
Preloaded(s, v) ==
  LET z == init_vector(s)
  IN [z EXCEPT !.val = [k \in DOMAIN z.val |-> v + k[2]]]

\* has_bc: some column dof of the cell is in boundary_values
has_bc(dmap1, bv) == \E k \in 1 .. Len(dmap1) : dmap1[k] \in DOMAIN bv

\* "auto dmap0 = dofmap1->cell_dofs(cell.index());"
lift_row_dofs(c) == cell_dofs(space1(0), c)

\* Ae.resize(dmap0.size(), dmap1.size()); Ae.setZero(); tabulate_tensor
\* writes the rows x cols values of the form, row by row, into Ae.data()
lift_tensor(dmap0, dmap1, T) ==
  [r \in 1 .. Len(dmap0) |->
     [k \in 1 .. Len(dmap1) |-> IF r <= Len(T) THEN T[r][k] ELSE 0]]

RECURSIVE lift_sum(_, _, _, _)
lift_sum(row, dmap1, bv, k) ==
  IF k = 0 THEN 0
  ELSE lift_sum(row, dmap1, bv, k - 1)
       - (IF dmap1[k] \in DOMAIN bv THEN row[k] * bv[dmap1[k]] ELSE 0)

\* be -= Ae.col(j) * bc->second for every constrained column j
lift_vector(T, dmap1, bv) ==
  [r \in DOMAIN T |-> lift_sum(T[r], dmap1, bv, Len(dmap1))]

\* boundary values of the column space, then the dof maps
ApplyBcCollect ==
  /\ op = "apply_bc" /\ pc = "start"
  /\ bv1' = collect(space1(0), bcs, Len(bcs))
  /\ events' = events \o collect_calls(space1(0), 1, bcs, Len(bcs))
  /\ cell' = 0
  /\ pc' = "cells"
  /\ UNCHANGED <<inputs, rank, hint, err, call, path, bi, bj, offset_row,
                 offset_col, view, bv0, Ae, A, b, b_local, finals, first>>

\* one iteration of the cell loop
ApplyBcCell ==
  /\ op = "apply_bc" /\ pc = "cells" /\ cell < num_cells(rank)
  /\ LET dmap1 == cell_dofs(space1(0), cell)
         dmap0 == lift_row_dofs(cell)
         T == tabulate_tensor(0, 0, space0(0), space1(0), cell)
         be == lift_vector(lift_tensor(dmap0, dmap1, T), dmap1, bv1)
     IN IF ~has_bc(dmap1, bv1)
          THEN \* continue
               /\ cell' = cell + 1
               /\ UNCHANGED <<Ae, b, events, pc, err>>
          ELSE \/ \* the tensor is tabulated and the lifting term added
                  /\ Ae' = lift_tensor(dmap0, dmap1, T)
                  /\ IF \A r \in 1 .. Len(dmap0) : <<rank, dmap0[r]>> \in DOMAIN b.val
                       THEN /\ b' = [b EXCEPT !.val =
                                       add_cell_vector(b.val, be, dmap0, VecKey)]
                            /\ events' = Append(events,
                                  [kind |-> "tabulate", cell |-> cell,
                                   rows |-> dmap0])
                            /\ cell' = cell + 1
                            /\ UNCHANGED <<pc, err>>
                       ELSE \* a row index is not an entry of b
                            /\ pc' = "error"
                            /\ err' = "index out of range"
                            /\ UNCHANGED <<b, events, cell>>
               \/ \* the form tabulates more rows than Ae holds: the write
                  \* past the end of the buffer may also end the program
                  /\ Len(T) > Len(dmap0)
                  /\ pc' = "error"
                  /\ err' = "write past the end of Ae"
                  /\ UNCHANGED <<Ae, b, events, cell>>
  /\ UNCHANGED <<inputs, rank, hint, call, path, bi, bj, offset_row,
                 offset_col, view, bv0, bv1, A, b_local, finals, first>>

\* b.apply() after the loop
ApplyBcFinal ==
  /\ op = "apply_bc" /\ pc = "cells" /\ cell = num_cells(rank)
  /\ finals' = finals + 1
  /\ pc' = "done"
  /\ UNCHANGED <<inputs, rank, hint, err, call, path, bi, bj, offset_row,
                 offset_col, view, cell, bv0, bv1, Ae, A, b, b_local, events,
                 first>>

InitApplyBc ==
  /\ op = "apply_bc" /\ nproc = 1
  /\ sys \in LiftSystems
  /\ bcs \in BcLists
  /\ hint = "single"
  /\ Idle
  /\ A = NoMatrix
  /\ \E v \in PreloadValues : b = Preloaded(space0(0), v)
  /\ pre = b.val /\ form = NoForm /\ res = "none"
  /\ ufc = [s \in Spaces |-> signature(s)]

NextApplyBc ==
  \/ ApplyBcCollect
  \/ ApplyBcCell
  \/ ApplyBcFinal

SpecApplyBc == InitApplyBc /\ [][NextApplyBc]_vars

\* cells with a constrained column dof
LiftedCells ==
  { c \in 0 .. (num_cells(rank) - 1) :
      \E k \in 1 .. Len(cell_dofs(space1(0), c)) :
        cell_dofs(space1(0), c)[k] \in ConstrainedDofs(space1(0)) }

\* the prescribed value of a constrained dof of a space
Prescribed(s, d) ==
  LET n == CHOOSE m \in 1 .. Len(bcs) :
             contains(s, bcs[m].space) /\ d \in DOMAIN bcs[m].values
  IN bcs[n].values[d]

\* the lifting term of row dof l: minus the sum, over the cells with a
\* constrained column dof and their local rows i at dof l, of
\* Ae(i, j) * value(j) over the constrained column dofs j
Lifting(l) ==
  LET s0 == space0(0)
      s1 == space1(0)
      X == { x \in LiftedCells \X (1 .. 2) \X (1 .. 2) :
               /\ x[2] <= Len(cell_dofs(s0, x[1]))
               /\ x[3] <= Len(cell_dofs(s1, x[1]))
               /\ cell_dofs(s0, x[1])[x[2]] = l
               /\ cell_dofs(s1, x[1])[x[3]] \in ConstrainedDofs(s1) }
  IN SumKeys(X, [x \in X |->
                   0 - tabulate_tensor(0, 0, s0, s1, x[1])[x[2]][x[3]]
                       * Prescribed(s1, cell_dofs(s1, x[1])[x[3]])])

\* C8: apply_bc adds to the vector, for every cell with a constrained
\* column dof, at the cell's row dofs given by the dof map of the row space
\* V0, minus the sum over the constrained column dofs j of Ae(i,j)*value(j);
\* cells without a constrained column dof change nothing and their tensor
\* is not tabulated.
C8_LiftingAtRowDofs ==
  op = "apply_bc" =>
    /\ pc = "done" =>
         \A k \in DOMAIN b.val : b.val[k] = pre[k] + Lifting(k[2])
    /\ \A n \in 1 .. Len(events) :
         events[n].kind = "tabulate" => events[n].cell \in LiftedCells

\* ------------------------------------------------------------------------
\* Assembler::set_bc(la::PETScVector& b, const Form& L, bcs)
\* ------------------------------------------------------------------------
\* the linear forms L given to set_bc: space rows[1]
SetSystems ==
  { Sys(<<"V">>, <<"V">>, {}, {}),
    Sys(<<"Q">>, <<"Q">>, {}, {}) }

\* (variant: the values are added to the entries)
vec_set_local_add(val, bv) ==
  [k \in DOMAIN val |->
     IF k[2] \in DOMAIN bv THEN val[k] + bv[k[2]] ELSE val[k]]

\* PETScVector::set_local(values, n, rows): VecSetValuesLocal INSERT_VALUES
vec_set_local(val, bv) ==
  [k \in DOMAIN val |->
     IF k[1] = rank /\ k[2] \in DOMAIN bv THEN bv[k[2]] ELSE val[k]]

\* boundary values of the space of L
SetBcCollect ==
  /\ op = "set_bc" /\ pc = "start"
  /\ bv0' = collect(space0(0), bcs, Len(bcs))
  /\ events' = events \o collect_calls(space0(0), 0, bcs, Len(bcs))
  /\ pc' = "set"
  /\ UNCHANGED <<inputs, rank, hint, err, call, path, bi, bj, offset_row,
                 offset_col, view, cell, bv1, Ae, A, b, b_local, finals,
                 first>>

\* rows / values are copied from the map and b.set_local is called
SetBcSetLocal ==
  /\ op = "set_bc" /\ pc = "set"
  /\ b' = [b EXCEPT !.val = vec_set_local(b.val, bv0)]
  /\ events' = Append(events, [kind |-> "set", rows |-> DOMAIN bv0])
  /\ pc' = "apply"
  /\ UNCHANGED <<inputs, rank, hint, err, call, path, bi, bj, offset_row,
                 offset_col, view, cell, bv0, bv1, Ae, A, b_local, finals,
                 first>>

\* b.apply()
SetBcApply ==
  /\ op = "set_bc" /\ pc = "apply"
  /\ finals' = finals + 1
  /\ first' = IF call = 1 THEN b.val ELSE first
  /\ pc' = "done"
  /\ UNCHANGED <<inputs, rank, hint, err, call, path, bi, bj, offset_row,
                 offset_col, view, cell, bv0, bv1, Ae, A, b, b_local, events>>

\* the caller applies set_bc to the same vector again
SetBcAgain ==
  /\ op = "set_bc" /\ pc = "done" /\ call < MaxCalls
  /\ call' = call + 1
  /\ pc' = "start"
  /\ finals' = 0
  /\ events' = <<>>
  /\ UNCHANGED <<inputs, rank, hint, err, path, bi, bj, offset_row,
                 offset_col, view, cell, bv0, bv1, Ae, A, b, b_local, first>>

InitSetBc ==
  /\ op = "set_bc" /\ nproc = 1
  /\ sys \in SetSystems
  /\ bcs \in BcLists
  /\ hint = "single"
  /\ Idle
  /\ A = NoMatrix
  /\ \E v \in PreloadValues : b = Preloaded(space0(0), v)
  /\ pre = b.val /\ form = NoForm /\ res = "none"
  /\ ufc = [s \in Spaces |-> signature(s)]

NextSetBc ==
  \/ SetBcCollect
  \/ SetBcSetLocal
  \/ SetBcApply
  \/ SetBcAgain

SpecSetBc == InitSetBc /\ [][NextSetBc]_vars

\* C9: after set_bc, whatever the vector held, the entry of every
\* constrained dof of the space of the form (from every condition whose
\* space it contains) is the prescribed value, every other entry is
\* unchanged, and a second set_bc changes nothing.
C9_SetBcOverwrites ==
  (op = "set_bc" /\ pc = "done") =>
    /\ \A k \in DOMAIN b.val :
         b.val[k] = IF k[2] \in ConstrainedDofs(space0(0))
                      THEN Prescribed(space0(0), k[2])
                      ELSE pre[k]
    /\ b.val = first

C9_Witness ==
  /\ op = "set_bc" /\ pc = "done" /\ call = 2
  /\ \E k \in DOMAIN b.val :
       k[2] \in ConstrainedDofs(space0(0)) /\ b.val[k] # pre[k]
  /\ \E k \in DOMAIN b.val : k[2] \notin ConstrainedDofs(space0(0))

\* ------------------------------------------------------------------------
\* Form (Form.cpp): construction, setters and Form::mesh()
\* ------------------------------------------------------------------------
\* Meshes; "null" is an empty shared pointer.  A function space, a marker
\* and a coefficient are represented by the mesh they are defined on.
Meshes == {"M1", "M2"}
MeshPointers == Meshes \cup {"null"}

SeqsUpTo(S, n) == UNION { [1 .. k -> S] : k \in 0 .. n }

\* keep the non-null pointers of a sequence, in order
RECURSIVE non_null(_)
non_null(q) ==
  IF q = <<>> THEN <<>>
  ELSE IF q[1] = "null" THEN non_null(Tail(q))
  ELSE <<q[1]>> \o non_null(Tail(q))

\* (variant: the meshes of the coefficients are always collected)
coefficient_meshes_always(f, meshes) == non_null(f.coefficients)

\* "Extract meshes from coefficients ... only done when we don't already
\* have a mesh": the meshes added by the loop over the coefficients
coefficient_meshes(f, meshes) ==
  IF meshes = <<>> THEN non_null(f.coefficients) ELSE <<>>

\* the vector `meshes` built by Form::mesh()
form_meshes(f) ==
  LET m0 == non_null(f.spaces)
      m1 == IF f.mesh # "null" THEN Append(m0, f.mesh) ELSE m0
      m2 == IF f.dx # "null" THEN Append(m1, f.dx) ELSE m1
      m3 == IF f.ds # "null" THEN Append(m2, f.ds) ELSE m2
      m4 == IF f.dS # "null" THEN Append(m3, f.dS) ELSE m3
      m5 == IF f.dP # "null" THEN Append(m4, f.dP) ELSE m4
  IN m5 \o coefficient_meshes(f, m5)

NoMeshError == "No mesh was found"
NonMatchingError == "Non-matching meshes for function spaces and/or measures"

\* the checks of Form::mesh() on `meshes` and the mesh returned
mesh_result(meshes) ==
  IF meshes = <<>> THEN NoMeshError
  ELSE IF \E i \in 2 .. Len(meshes) : meshes[i] # meshes[i - 1]
         THEN NonMatchingError
  ELSE meshes[1]

\* Form::mesh(): the outcomes; an unset coefficient is dereferenced by the
\* loop over the coefficients, which may also end the program
form_mesh(f) ==
  LET meshes == form_meshes(f)
      primary == non_null(f.spaces \o <<f.mesh, f.dx, f.ds, f.dS, f.dP>>)
  IN {mesh_result(meshes)}
       \cup (IF /\ primary = <<>>
                /\ \E i \in 1 .. Len(f.coefficients) :
                     f.coefficients[i] = "null"
               THEN {"null pointer dereference"} ELSE {})

\* Form::mesh() is called
FormMesh ==
  /\ op = "form"
  /\ \E r \in form_mesh(form) : res' = r
  /\ UNCHANGED <<op, nproc, rank, sys, bcs, hint, pc, err, call, path, bi,
                 bj, offset_row, offset_col, view, cell, bv0, bv1, Ae, A, b,
                 b_local, finals, events, first, pre, form, ufc>>

\* a setter changes the form; the recorded outcome no longer describes it
FormSet(f) ==
  /\ op = "form"
  /\ form' = f
  /\ f # form
  /\ res' = "none"
  /\ UNCHANGED <<op, nproc, rank, sys, bcs, hint, pc, err, call, path, bi,
                 bj, offset_row, offset_col, view, cell, bv0, bv1, Ae, A, b,
                 b_local, finals, events, first, pre, ufc>>

\* Form::set_mesh
SetMesh == \E m \in MeshPointers : FormSet([form EXCEPT !.mesh = m])
\* Form::set_cell_domains
SetCellDomains == \E m \in MeshPointers : FormSet([form EXCEPT !.dx = m])
\* Form::set_exterior_facet_domains
SetExteriorFacetDomains ==
  \E m \in MeshPointers : FormSet([form EXCEPT !.ds = m])
\* Form::set_interior_facet_domains
SetInteriorFacetDomains ==
  \E m \in MeshPointers : FormSet([form EXCEPT !.dS = m])
\* Form::set_vertex_domains
SetVertexDomains == \E m \in MeshPointers : FormSet([form EXCEPT !.dP = m])
\* Form::set_coefficient(i, coefficient)
SetCoefficient ==
  \E i \in 1 .. Len(form.coefficients) : \E m \in MeshPointers :
    FormSet([form EXCEPT !.coefficients[i] = m])

\* Form::Form(rank, num_coefficients) and Form::Form(ufc_form, spaces)
InitForm ==
  /\ op = "form" /\ nproc = 1
  /\ sys = Sys(<<"V">>, <<"V">>, {}, {}) /\ bcs = <<>> /\ hint = "single"
  /\ Idle
  /\ A = NoMatrix /\ b = NoVector /\ pre = EmptyMap
  /\ \E fs \in SeqsUpTo(Meshes, 2) \cup {<<"null">>, <<"null", "null">>} :
       \E n \in 0 .. MaxCoefficients :
         form = [NoForm EXCEPT !.spaces = fs,
                               !.coefficients = [i \in 1 .. n |-> "null"]]
  /\ res = "none"
  /\ ufc = [s \in Spaces |-> signature(s)]

NextForm ==
  \/ FormMesh
  \/ SetMesh
  \/ SetCellDomains
  \/ SetExteriorFacetDomains
  \/ SetInteriorFacetDomains
  \/ SetVertexDomains
  \/ SetCoefficient

SpecForm == InitForm /\ [][NextForm]_vars

\* the meshes a form refers to
SpaceAndMarkerMeshes(f) ==
  { m \in Meshes :
      \/ \E i \in 1 .. Len(f.spaces) : f.spaces[i] = m
      \/ m \in {f.mesh, f.dx, f.ds, f.dS, f.dP} }
CoefficientMeshes(f) ==
  { m \in Meshes : \E i \in 1 .. Len(f.coefficients) : f.coefficients[i] = m }
AllMeshes(f) == SpaceAndMarkerMeshes(f) \cup CoefficientMeshes(f)

Errors == {NoMeshError, NonMatchingError, "null pointer dereference"}

AllCoefficientsSet(f) ==
  \A i \in 1 .. Len(f.coefficients) : f.coefficients[i] # "null"

\* C10 (as stated): Form::mesh raises an error whenever the function
\* spaces, the set mesh, the markers and the coefficients (all set) do not
\* all resolve to one mesh, and returns the common mesh when they do.
C10_OneCommonMesh ==
  (op = "form" /\ res # "none" /\ AllCoefficientsSet(form)) =>
    /\ Cardinality(AllMeshes(form)) # 1 => res \in Errors
    /\ Cardinality(AllMeshes(form)) = 1 => AllMeshes(form) = {res}

\* C10 (amended): the meshes of the coefficients count only when no
\* function space, set mesh or marker gives a mesh.  If these give more
\* than one mesh it is an error; if they give exactly one, it is returned
\* whatever the coefficients are defined on; if they give none, the
\* coefficients decide in the same way (several meshes or none: error, an
\* unset coefficient may also end the call).
C10_CoefficientsOnlyWithoutMesh ==
  (op = "form" /\ res # "none") =>
    LET P == SpaceAndMarkerMeshes(form)
        C == CoefficientMeshes(form)
    IN /\ Cardinality(P) > 1 => res = NonMatchingError
       /\ Cardinality(P) = 1 => P = {res}
       /\ (P = {} /\ res # "null pointer dereference") =>
            /\ Cardinality(C) > 1 => res = NonMatchingError
            /\ Cardinality(C) = 1 => C = {res}
            /\ C = {} => res = NoMeshError
       /\ res = "null pointer dereference" =>
            /\ P = {}
            /\ \E i \in 1 .. Len(form.coefficients) :
                 form.coefficients[i] = "null"

C10_Witness ==
  /\ op = "form" /\ res = "M1"
  /\ \E i \in 1 .. Len(form.spaces) : form.spaces[i] = "M1"
  /\ \E i \in 1 .. Len(form.coefficients) : form.coefficients[i] = "M2"

\* ------------------------------------------------------------------------
\* Form validation and assembly
\* ------------------------------------------------------------------------
\* Form::check() of the bilinear form of block (i, j) and of the linear
\* form of block i of the collection
check_a(i, j) ==
  check(2, 0, <<ufc[space0(i)], ufc[space1(j)]>>,
        <<space0(i), space1(j)>>, <<>>)
check_L(i) == check(1, 0, <<ufc[space0(i)]>>, <<space0(i)>>, <<>>)

\* C11: when the element signature expected by a form differs from the
\* signature of the element of its function space, the assemble call fails
\* before a cell of that form is tabulated or inserted: every insertion
\* made by a call belongs to a form that passes Form::check.
C11_CheckedBeforeCells ==
  \A n \in DOMAIN events :
    events[n].kind = "add" =>
      /\ op = "matrix" => check_a(events[n].i, events[n].j) = ""
      /\ op = "vector" => check_L(events[n].i) = ""

\* ------------------------------------------------------------------------
\* Shape of the block collection
\* ------------------------------------------------------------------------
\* C12: a collection whose a has not as many rows as L has forms is
\* rejected no later than allocation (nothing is allocated, nothing is
\* inserted), and no assemble call reads or writes a block index outside
\* the bounds of a or L.
C12_ShapesChecked ==
  /\ (op = "vector" /\ sys.arows # Len(sys.rows) /\ pc # "start") =>
       (pc = "error" /\ b.type = "none" /\ events = <<>>)
  /\ err \notin {"write past the end of forms",
                  "sub-vector index out of range"}

\* ------------------------------------------------------------------------
\* Monolithic and nested layout of the same collection
\* ------------------------------------------------------------------------
\* the target has the layout of the whole collection (nested, or one
\* matrix with the rows and columns of all blocks)
WholeCollection ==
  \/ A.type = "nest"
  \/ /\ A.type = "aij"
     /\ A.m = total_size(sys.rows, nrows)
     /\ A.n = total_size(sys.cols, ncols)

NoNullDiagonal ==
  \A i \in 0 .. ((IF nrows < ncols THEN nrows ELSE ncols) - 1) :
    <<i, i>> \notin sys.null

\* C13: for the same collection and boundary conditions, block (i, j) of
\* the monolithic matrix, sliced by the cumulative offsets, and sub-object
\* (i, j) of the nested matrix hold the same entries: in either layout,
\* once the call has ended, entry (r, c) of every non-null block is what
\* the cells of that block contribute at (r, c), and a null block receives
\* no insertion.
C13_MonolithicEqualsNested ==
  (/\ op = "matrix" /\ path \in {"nested", "monolithic"}
   /\ pc \in {"done", "error"}
   /\ WholeCollection /\ NoNullDiagonal) =>
    \A i \in 0 .. (nrows - 1) : \A j \in 0 .. (ncols - 1) :
      IF NonNull(i, j)
        THEN \A r \in BlockDofs(space0(i)) : \A c \in BlockDofs(space1(j)) :
               Entry(i, j, r, c) = call * Contribution(i, j, r, c)
        ELSE \A n \in 1 .. Len(events) :
               events[n].kind = "add" =>
                 ~(events[n].i = i /\ events[n].j = j)

\* ------------------------------------------------------------------------
\* Ghost accumulation of the nested and single vector paths
\* ------------------------------------------------------------------------
\* what the cells of all processes contribute to the global dof g of the
\* linear form of block i
RECURSIVE VectorContribution(_, _, _)
VectorContribution(i, g, ncell) ==
  IF ncell = 0 THEN 0
  ELSE LET gc == ncell - 1
           s == space0(i)
           dofs == global_dofs(s, gc)
           be == [r \in 1 .. Len(dofs) |-> 1 + (r - 1) + 2 * gc + 2 * NCells * i]
       IN VectorContribution(i, g, ncell - 1)
          + SumKeys({ r \in 1 .. Len(dofs) : dofs[r] = g }, be)

\* the owned entries <<i, p, l>> of the blocks of a ghosted target
OwnedEntries ==
  { x \in (0 .. (nrows - 1)) \X Procs \X (0 .. NCells) :
      /\ LNonNull(x[1]) /\ x[1] < sys.arows
      /\ x[3] < owned_size(x[2], space0(x[1])) }

\* C14: in the nested vector path the reverse ghost accumulation of
\* sub-vector i starts only after the cell loop of block i has been run by
\* every process and the local form has been restored, and is over before
\* the cell loop of block i+1 starts; in the single path it follows the
\* cell loop; a null block is neither assembled nor accumulated.  After the
\* call that allocated the target every owned entry is the sum of the
\* contributions of all processes to its dof.
C14_GhostAccumulationOrder ==
  (op = "vector" /\ path \in {"nested", "single"}) =>
    /\ \A n \in 1 .. Len(events) :
         events[n].kind = "ghost_update" =>
           /\ LNonNull(events[n].i)
           /\ n > 1 /\ events[n - 1] = [kind |-> "restore", i |-> events[n].i]
           /\ \A p \in Procs : \A c \in 0 .. (num_cells(p) - 1) :
                \E m \in 1 .. (n - 1) :
                  /\ events[m].kind = "add" /\ events[m].i = events[n].i
                  /\ events[m].rank = p /\ events[m].cell = c
           /\ \A m \in 1 .. Len(events) :
                /\ (events[m].kind = "add" /\ events[m].i <= events[n].i)
                     => m < n
                /\ (events[m].kind = "add" /\ events[m].i > events[n].i)
                     => m > n
                /\ (events[m].kind = "ghost_update" /\ m # n)
                     => events[m].i # events[n].i
    /\ pc = "done" =>
         \A i \in 0 .. (nrows - 1) :
           LNonNull(i) =>
             \E n \in 1 .. Len(events) :
               events[n] = [kind |-> "ghost_update", i |-> i]
    /\ (pc = "done" /\ call = 1) =>
         \A x \in OwnedEntries :
           LET g == owned_first(x[2], space0(x[1])) + x[3]
           IN (IF path = "nested" THEN b.val[x] ELSE b.val[<<x[2], x[3]>>])
                = VectorContribution(x[1], g, NCells)

C14_Witness ==
  /\ op = "vector" /\ nproc = 2 /\ path = "nested" /\ pc = "done" /\ call = 1
  /\ nrows = 2 /\ sys.lnull = {}
  /\ \E x \in GhostSlots(space0(0)) : b.val[<<0, x[1], x[2]>>] > 0

\* ------------------------------------------------------------------------
\* Collection of the boundary values on a distributed mesh: the program of
\* process 0 in the core (single layout), in apply_bc and in set_bc
\* ------------------------------------------------------------------------
GatherSystems ==
  { Sys(<<"V">>, <<"V">>, {}, {}),
    Sys(<<"Q">>, <<"Q">>, {}, {}) }

\* conditions on dofs present on process 0
GatherBcLists ==
  { <<>>, <<bcLeft>>, <<bcPoint>>, <<bcLeft, bcPoint>>, <<bcShared, bcQ>>,
    <<bcPointShared, bcSub>>, <<bcQ, bcPoint>> }

InitGather ==
  /\ op \in {"matrix", "apply_bc", "set_bc"}
  /\ nproc \in {1, 2}
  /\ sys \in GatherSystems
  /\ bcs \in GatherBcLists
  /\ hint = "single"
  /\ ufc = [s \in Spaces |-> signature(s)]
  /\ Idle
  /\ A = NoMatrix
  /\ b = IF op = "matrix" THEN NoVector ELSE Preloaded(space0(0), 0)
  /\ pre = b.val /\ form = NoForm /\ res = "none"

NextGather ==
  \/ AssembleInit
  \/ SingleBlock
  \/ CoreCell
  \/ SingleDiagonal
  \/ FinalApply
  \/ ApplyBcCollect
  \/ ApplyBcCell
  \/ ApplyBcFinal
  \/ SetBcCollect
  \/ SetBcSetLocal
  \/ SetBcApply

SpecGather == InitGather /\ [][NextGather]_vars

\* the axes whose constrained set an operation collects, and their spaces
CollectAxes ==
  IF op = "matrix" THEN {0, 1} ELSE IF op = "apply_bc" THEN {1} ELSE {0}
AxisSpace(ax) == IF ax = 0 THEN space0(0) ELSE space1(0)

\* the collection loop of the operation has been run
Collected == pc \notin {"start", "single"}

Called(kind, k, ax) ==
  \E n \in 1 .. Len(events) :
    events[n] = [kind |-> kind, bc |-> k, axis |-> ax]

\* C15: in the core, in apply_bc and in set_bc the values of a condition
\* are merged into the constrained set of an axis exactly when the space
\* of that axis contains the space of the condition, and the gather is
\* called for it exactly when moreover there is more than one process and
\* the method of the condition is not pointwise; all these calls are made
\* before the first cell is zeroed and inserted, the first lifting term is
\* computed, or the values are set.
C15_GatherBeforeCells ==
  /\ Collected =>
       \A k \in 1 .. Len(bcs) : \A ax \in {0, 1} :
         LET merged == ax \in CollectAxes
                       /\ contains(AxisSpace(ax), bcs[k].space)
         IN /\ Called("get_boundary_values", k, ax) <=> merged
            /\ Called("gather", k, ax) <=>
                 (merged /\ nproc > 1 /\ bcs[k].method # "pointwise")
  /\ Collected =>
       \A ax \in CollectAxes :
         DOMAIN (IF ax = 0 THEN bv0 ELSE bv1) =
           UNION { IF nproc > 1 /\ bcs[k].method = "pointwise"
                     THEN DOMAIN bcs[k].values \ bcs[k].remote
                     ELSE DOMAIN bcs[k].values :
                   k \in { n \in 1 .. Len(bcs) :
                             contains(AxisSpace(ax), bcs[n].space) } }
  /\ \A n, m \in 1 .. Len(events) :
       (/\ events[n].kind \in {"get_boundary_values", "gather"}
        /\ events[m].kind \in {"add", "tabulate", "set"}) => n < m

C15_Witness ==
  /\ op = "matrix" /\ nproc = 2 /\ pc = "done"
  /\ \E k \in 1 .. Len(bcs) : Called("gather", k, 0)
  /\ \E k \in 1 .. Len(bcs) :
       Called("get_boundary_values", k, 1) /\ ~Called("gather", k, 1)
  /\ \E n \in 1 .. Len(events) : events[n].kind = "add"

\* ------------------------------------------------------------------------
\* Dispatch on the layout of the matrix
\* ------------------------------------------------------------------------
\* the matrix handed to the core by each path
PathView ==
  IF path = "nested" THEN "sub"
  ELSE IF path = "monolithic" THEN "local" ELSE "whole"

C17_NullFormSkipped ==
  (op = "vector" /\ pc # "start" /\ path = "monolithic"
     /\ sys.lnull # {}) =>
    /\ pc # "error"
    /\ \A n \in 1 .. Len(events) :
         events[n].kind = "add_global" => events[n].i \notin sys.lnull
    /\ finals <= 1
    /\ pc = "done" =>
         /\ finals = 1
         /\ events[Len(events)].kind = "final"
         /\ \A i \in (0 .. (nrows - 1)) \ sys.lnull :
              \E n \in 1 .. Len(events) :
                events[n].kind = "add_global" /\ events[n].i = i

====
